---- MODULE Spec2Model ----
(***************************************************************************)
(* Skills loader (claude-skills-system/bin/load-skills.py):                *)
(* frontmatter parsing, recursive requirement resolution and bundle        *)
(* assembly.  Text is a sequence of one-character strings; a skill name    *)
(* is such a sequence too.                                                 *)
(***************************************************************************)
EXTENDS Integers, Sequences, FiniteSets, TLC

VARIABLES
    store,              \* skill store: name -> [exists, text]   (SKILLS_DIR/<name>.md)
    config,             \* what load_skills_config returned: [present, skills, format]
    options,            \* options of load_skills_for_project: [json]
    pc,                 \* position in load_skills_for_project
    ti,                 \* index of the top-level loop (line 179)
    stack,              \* active resolve_skill_dependencies frames
    resolved,           \* `resolved` set of the current top-level call
    resolving,          \* `resolving` set of the current top-level call
    all_skills_ordered, \* global load order (line 176)
    seen,               \* assembler's seen set (line 177)
    li,                 \* index of the load loop (line 192)
    loaded_skills,
    missing_skills,
    skills_content,
    skills_metadata,
    result,             \* value returned by load_skills_for_project
    opened,             \* name -> number of times the resolver opened its document (line 127)
    ptext,              \* parser harness: document handed to parse_skill_frontmatter
    pres                \* parser harness: what it returned

vars == <<store, config, options, pc, ti, stack, resolved, resolving,
          all_skills_ordered, seen, li, loaded_skills, missing_skills,
          skills_content, skills_metadata, result, opened, ptext, pres>>

-----------------------------------------------------------------------------
(* Text helpers: Python str methods used by the loader.                    *)

NL == "\n"

\* body(v) with v bound to the value of e, computed once
With(e, body(_)) == CHOOSE r \in {body(v) : v \in {e}} : TRUE

Whitespace == {" ", "\n", "\t"}

\* \w of the re module, over the alphabet the documents are written in
WordChars == {"a", "b", "c", "x", "y", "z", "r", "e", "q", "u", "i", "s", "k", "v", "B", "_"}

QuoteChars == {"\"", "'"}

\* s.startswith(p) at offset i (1-based)
MatchAt(s, p, i) ==
    /\ i >= 1
    /\ i + Len(p) - 1 <= Len(s)
    /\ SubSeq(s, i, i + Len(p) - 1) = p

\* s.strip(chars): from the first to the last character not in chars
Strip(s, chars) ==
    With({i \in 1..Len(s) : s[i] \notin chars},
         LAMBDA keep :
            IF keep = {} THEN <<>>
            ELSE SubSeq(s, CHOOSE i \in keep : \A j \in keep : i <= j,
                           CHOOSE i \in keep : \A j \in keep : i >= j))

\* s.split(sep) for a one-character separator: the pieces between the
\* separators, always at least one piece
Split(s, sep) ==
    With(SelectSeq([i \in 1..Len(s) |-> i], LAMBDA i : s[i] = sep),
         LAMBDA cut :
            [k \in 1..(Len(cut) + 1) |->
                SubSeq(s, IF k = 1 THEN 1 ELSE cut[k - 1] + 1,
                          IF k = Len(cut) + 1 THEN Len(s) ELSE cut[k] - 1)])

\* sep.join(parts)
RECURSIVE Join(_, _)
Join(parts, sep) ==
    IF parts = <<>> THEN <<>>
    ELSE IF Len(parts) = 1 THEN parts[1]
    ELSE parts[1] \o sep \o Join(Tail(parts), sep)

-----------------------------------------------------------------------------
(* parse_skill_frontmatter                                                 *)

OpenMarker == <<"-", "-", "-", "\n">>
CloseMarker == <<"\n", "-", "-", "-", "\n">>

KeyRequires == <<"r", "e", "q", "u", "i", "r", "e", "s">>

\* re.match(r'^---\n([\s\S]*?)\n---\n', content): the offsets at which the
\* closing part can start once the opening part matched at the start.  The
\* opening part consumes its line break, so the closing part starts at 5 or later.
CloseOffsets(content) ==
    IF MatchAt(content, OpenMarker, 1)
    THEN {i \in 5..Len(content) : MatchAt(content, CloseMarker, i)}
    ELSE {}

\* length of the [\w]+ prefix of a line
WordPrefixLen(line) ==
    LET other == {i \in 1..Len(line) : line[i] \notin WordChars}
    IN  IF other = {} THEN Len(line) ELSE (CHOOSE i \in other : \A j \in other : i <= j) - 1

\* re.match(r'^(\w+):\s*(.+)$', line): a key of word characters, a colon and a
\* non-empty remainder (\s* backtracks so that (.+) keeps at least one character)
LineMatches(line) ==
    \E k \in {WordPrefixLen(line)} :
        /\ k >= 1
        /\ k + 1 <= Len(line)
        /\ line[k + 1] = ":"
        /\ k + 2 <= Len(line)

LineKey(line) == SubSeq(line, 1, WordPrefixLen(line))

\* group(2).strip(): leading whitespace eaten by \s*, the rest by strip()
LineRawValue(line) ==
    Strip(SubSeq(line, WordPrefixLen(line) + 2, Len(line)), Whitespace)

\* lines 92-96: a value wrapped in brackets becomes a list
IsArray(value) == value # <<>> /\ Head(value) = "[" /\ value[Len(value)] = "]"

ArrayItems(value) ==
    With(Split(SubSeq(value, 2, Len(value) - 1), ","),
         LAMBDA parts : [i \in 1..Len(parts) |-> Strip(Strip(parts[i], Whitespace), QuoteChars)])

LineValue(line) ==
    With(LineRawValue(line),
         LAMBDA value : IF IsArray(value)
                        THEN [list |-> TRUE, items |-> ArrayItems(value)]
                        ELSE [list |-> FALSE, items |-> <<value>>])

\* lines 82-98: later lines overwrite earlier ones with the same key
ParseLines(lines) ==
    With({i \in 1..Len(lines) : LineMatches(lines[i])},
         LAMBDA matching :
            [k \in {LineKey(lines[i]) : i \in matching} |->
                With(CHOOSE i \in matching :
                        /\ LineKey(lines[i]) = k
                        /\ \A j \in matching : LineKey(lines[j]) = k => j <= i,
                     LAMBDA last : LineValue(lines[last]))])

\* returns (frontmatter, content); matched = FALSE stands for frontmatter None
parse_skill_frontmatter(content) ==
    With(CloseOffsets(content),
         LAMBDA offsets :
            IF offsets = {}
            THEN [matched |-> FALSE, frontmatter |-> <<>>, content |-> content]
            ELSE With(CHOOSE i \in offsets : \A j \in offsets : i <= j,
                      LAMBDA c :
                         [matched |-> TRUE,
                          frontmatter |->
                              With(Split(SubSeq(content, 5, c - 1), NL),
                                   LAMBDA lines : ParseLines(lines)),
                          content |-> SubSeq(content, c + Len(CloseMarker), Len(content))]))

-----------------------------------------------------------------------------
(* Inputs: skill names, documents, configurations.                         *)

MaxConfig == 2      \* longest configured top-level list
MaxRequires == 2    \* longest requires list written in a document

NameOrder == << <<"x">>, <<"y">>, <<"z">> >>

Names == {NameOrder[k] : k \in 1..Len(NameOrder)}

SeqsUpTo(S, n) == UNION {[1..k -> S] : k \in 0..n}

\* sequences that name nothing twice
Injective(q) == \A i, j \in 1..Len(q) : q[i] = q[j] => i = j

\* body text of the document written for a name
BodyOf(n) == <<"B">> \o n \o <<"\n">>

\* "[x, y]"
FormatList(reqs) == <<"[">> \o Join(reqs, <<",", " ">>) \o <<"]">>

\* a document with a header declaring requires as a list
ListDoc(reqs, body) ==
    OpenMarker \o KeyRequires \o <<":", " ">> \o FormatList(reqs) \o CloseMarker \o body

\* a document with a header declaring requires as one scalar
ScalarDoc(req, body) ==
    OpenMarker \o KeyRequires \o <<":", " ">> \o req \o CloseMarker \o body

\* the documents that may be stored under a name: without header, with a
\* list of requirements, or with the first name as a scalar requirement
DocsFor(n) ==
    {BodyOf(n)}
    \cup {ListDoc(r, BodyOf(n)) :
             r \in {q \in SeqsUpTo(Names, MaxRequires) : q # <<>> /\ Injective(q)}}
    \cup {ScalarDoc(NameOrder[1], BodyOf(n))}

NoFile == [exists |-> FALSE, text |-> <<>>]

Stores ==
    {s \in [Names -> {NoFile} \cup [exists : {TRUE}, text : UNION {DocsFor(n) : n \in Names}]] :
        \A n \in Names : s[n].exists => s[n].text \in DocsFor(n)}


NoConfig == [present |-> FALSE, skills |-> <<>>]

\* names are interchangeable, so configured lists are taken up to renaming:
\* a name is first listed only after the names that precede it in NameOrder
FirstUse(q) ==
    \A i \in 1..Len(q) : \A k \in 1..Len(NameOrder) :
        (q[i] = NameOrder[k] /\ k > 1) => \E j \in 1..(i - 1) : q[j] = NameOrder[k - 1]

Configs ==
    {NoConfig}
    \cup [present : {TRUE}, skills : {q \in SeqsUpTo(Names, MaxConfig) : FirstUse(q)}]

Range(s) == {s[k] : k \in 1..Len(s)}

\* lines 130-137: the requires list of a document
Requires(content) ==
    With(parse_skill_frontmatter(content),
         LAMBDA fm : IF fm.matched /\ KeyRequires \in DOMAIN fm.frontmatter
                     THEN fm.frontmatter[KeyRequires].items
                     ELSE <<>>)

\* the names reachable from the names in S along the requires lists in g
RECURSIVE Reachable(_, _)
Reachable(g, S) ==
    LET T == S \cup UNION {Range(g[n]) \cap Names : n \in S}
    IN  IF T = S THEN S ELSE Reachable(g, T)

-----------------------------------------------------------------------------
(* Skill store: SKILLS_DIR / f"{skill_name}.md"                            *)

Exists(n) == n \in DOMAIN store /\ store[n].exists

Read(n) == store[n].text

-----------------------------------------------------------------------------
(* resolve_skill_dependencies, one step per call and per return.           *)

\* deepest recursion a store can cause: every frame holds a distinct stored name
MaxDepth == Cardinality(Names) + 1

\* EnterKind without the test of line 117
EnterKind_NoCycleTest(n, rsd, rsg) ==
    IF n \in rsd THEN "resolved"
    ELSE IF ~Exists(n) THEN "missing"
    ELSE "expand"

\* lines 115-123: why a call returns [] at once, or "expand"
EnterKind(n, rsd, rsg) ==
    IF n \in rsd THEN "resolved"
    ELSE IF n \in rsg THEN "cycle"
    ELSE IF ~Exists(n) THEN "missing"
    ELSE "expand"

\* lines 125-132: the frame of a call that expands
NewFrame(n) ==
    [name |-> n, requires |-> Requires(Read(n)), i |-> 1, dependencies |-> <<>>]

Top == stack[Len(stack)]

\* Emit with the name put before its requirements
Emit_NameFirst(frame) == <<frame.name>> \o frame.dependencies

\* line 142: what a call that expanded returns
Emit(frame) == Append(frame.dependencies, frame.name)

\* AfterEmpty with a detected cycle ending the loop over the requirements
AfterEmpty_CycleBreaks(frame, kind) ==
    IF kind = "cycle" THEN Len(frame.requires) + 1 ELSE frame.i + 1

\* lines 139-140: the loop index after a call that returned []
AfterEmpty(frame, kind) == frame.i + 1

Pop == SubSeq(stack, 1, Len(stack) - 1)

\* MergeOrder without the seen test
MergeOrder_NoSeen(order, deps) == order \o deps

\* MergeOrder with a name seen again moved to the end
RECURSIVE MergeOrder_LastWins(_, _)
MergeOrder_LastWins(order, deps) ==
    IF deps = <<>> THEN order
    ELSE MergeOrder_LastWins(
             Append(SelectSeq(order, LAMBDA m : m # Head(deps)), Head(deps)), Tail(deps))

\* lines 181-184: merge a returned sub-sequence, first occurrence wins
RECURSIVE MergeOrder(_, _)
MergeOrder(order, deps) ==
    IF deps = <<>> THEN order
    ELSE IF \E k \in 1..Len(order) : order[k] = Head(deps)
         THEN MergeOrder(order, Tail(deps))
         ELSE MergeOrder(Append(order, Head(deps)), Tail(deps))

-----------------------------------------------------------------------------
(* load_skills_for_project                                                 *)

TextResult(t) == [kind |-> "text", text |-> t, obj |-> <<>>]

JsonResult(o) == [kind |-> "json", text |-> <<>>, obj |-> o]

\* line 168
AbsentResult(json) ==
    IF json THEN JsonResult([error |-> "No skills configuration found"]) ELSE TextResult(<<>>)

\* line 173
EmptyResult(json) ==
    IF json THEN JsonResult([error |-> "No active skills"]) ELSE TextResult(<<>>)

\* line 232
Separator == <<"\n", "\n", "-", "-", "-", "\n", "\n">>

\* Combine with the rule but not the blank lines around it
Combine_BareRule(contents) == Join(contents, <<"-", "-", "-", "\n">>)

\* line 232: the plain-text bundle
Combine(contents) == Join(contents, Separator)

\* lines 163-177
LoadConfig ==
    /\ pc = "start"
    /\ IF ~config.present
       THEN /\ result' = AbsentResult(options.json)
            /\ pc' = "done"
            /\ UNCHANGED <<ti, all_skills_ordered, seen>>
       ELSE IF config.skills = <<>>
       THEN /\ result' = EmptyResult(options.json)
            /\ pc' = "done"
            /\ UNCHANGED <<ti, all_skills_ordered, seen>>
       ELSE /\ all_skills_ordered' = <<>>
            /\ seen' = {}
            /\ ti' = 1
            /\ pc' = "resolve"
            /\ UNCHANGED result
    /\ UNCHANGED <<store, config, options, stack, resolved, resolving, li, loaded_skills,
                   missing_skills, skills_content, skills_metadata, opened, ptext, pres>>

\* line 180: the top-level call, resolved and resolving left to their defaults
CallTop ==
    /\ pc = "resolve"
    /\ stack = <<>>
    /\ ti <= Len(config.skills)
    /\ LET n == config.skills[ti] IN
       IF EnterKind(n, {}, {}) = "expand"
       THEN /\ stack' = <<NewFrame(n)>>
            /\ resolved' = {}
            /\ resolving' = {n}
            /\ opened' = [opened EXCEPT ![n] = @ + 1]
            /\ UNCHANGED ti
       ELSE /\ resolved' = {}
            /\ resolving' = {}
            /\ ti' = ti + 1
            /\ UNCHANGED <<stack, opened>>
    /\ UNCHANGED <<store, config, options, pc, all_skills_ordered, seen, li, loaded_skills,
                   missing_skills, skills_content, skills_metadata, result, ptext, pres>>

\* line 140: the recursive call for the next requirement
CallDep ==
    /\ pc = "resolve"
    /\ stack # <<>>
    /\ Top.i <= Len(Top.requires)
    /\ Len(stack) < MaxDepth
    /\ LET n == Top.requires[Top.i]
           kind == EnterKind(n, resolved, resolving)
       IN  IF kind = "expand"
           THEN /\ stack' = Append(stack, NewFrame(n))
                /\ resolving' = resolving \cup {n}
                /\ opened' = [opened EXCEPT ![n] = @ + 1]
           ELSE /\ stack' = [stack EXCEPT ![Len(stack)].i = AfterEmpty(Top, kind)]
                /\ UNCHANGED <<resolving, opened>>
    /\ UNCHANGED <<store, config, options, pc, ti, resolved, all_skills_ordered, seen, li,
                   loaded_skills, missing_skills, skills_content, skills_metadata, result,
                   ptext, pres>>

\* lines 142-146, returning into the caller's loop at line 140
ReturnDep ==
    /\ pc = "resolve"
    /\ Len(stack) > 1
    /\ Top.i > Len(Top.requires)
    /\ LET out == Emit(Top)
           caller == Len(stack) - 1
       IN  /\ stack' = [Pop EXCEPT ![caller].dependencies = @ \o out, ![caller].i = @ + 1]
           /\ resolved' = resolved \cup {Top.name}
           /\ resolving' = resolving \ {Top.name}
    /\ UNCHANGED <<store, config, options, pc, ti, all_skills_ordered, seen, li, loaded_skills,
                   missing_skills, skills_content, skills_metadata, result, opened, ptext, pres>>

\* lines 142-146, returning to line 180, then the merge of lines 181-184
ReturnTop ==
    /\ pc = "resolve"
    /\ Len(stack) = 1
    /\ Top.i > Len(Top.requires)
    /\ LET out == Emit(Top) IN
       /\ all_skills_ordered' = MergeOrder(all_skills_ordered, out)
       /\ seen' = seen \cup Range(out)
    /\ stack' = <<>>
    /\ resolved' = resolved \cup {Top.name}
    /\ resolving' = resolving \ {Top.name}
    /\ ti' = ti + 1
    /\ UNCHANGED <<store, config, options, pc, li, loaded_skills, missing_skills,
                   skills_content, skills_metadata, result, opened, ptext, pres>>

\* lines 186-190
StartLoad ==
    /\ pc = "resolve"
    /\ stack = <<>>
    /\ ti > Len(config.skills)
    /\ pc' = "load"
    /\ li' = 1
    /\ loaded_skills' = <<>>
    /\ missing_skills' = <<>>
    /\ skills_content' = <<>>
    /\ skills_metadata' = <<>>
    /\ UNCHANGED <<store, config, options, ti, stack, resolved, resolving, all_skills_ordered,
                   seen, result, opened, ptext, pres>>

\* lines 192-212: one iteration of the load loop
LoadSkill ==
    /\ pc = "load"
    /\ li <= Len(all_skills_ordered)
    /\ LET skill_name == all_skills_ordered[li] IN
       IF Exists(skill_name)
       THEN LET raw_content == Read(skill_name)
                parsed == parse_skill_frontmatter(raw_content)
            IN  /\ skills_content' = Append(skills_content, parsed.content)
                /\ loaded_skills' = Append(loaded_skills, skill_name)
                /\ skills_metadata' =
                      IF options.json
                      THEN Append(skills_metadata,
                                  [name |-> skill_name, path |-> skill_name,
                                   matched |-> parsed.matched,
                                   frontmatter |-> parsed.frontmatter,
                                   size |-> Len(raw_content)])
                      ELSE skills_metadata
                /\ UNCHANGED missing_skills
       ELSE /\ missing_skills' = Append(missing_skills, skill_name)
            /\ UNCHANGED <<skills_content, loaded_skills, skills_metadata>>
    /\ li' = li + 1
    /\ UNCHANGED <<store, config, options, pc, ti, stack, resolved, resolving,
                   all_skills_ordered, seen, result, opened, ptext, pres>>

\* lines 221-232
Finish ==
    /\ pc = "load"
    /\ li > Len(all_skills_ordered)
    /\ result' = IF options.json
                 THEN JsonResult([configuration |-> config,
                                  loadedSkills |-> loaded_skills,
                                  missingSkills |-> missing_skills,
                                  skills |-> skills_metadata])
                 ELSE TextResult(Combine(skills_content))
    /\ pc' = "done"
    /\ UNCHANGED <<store, config, options, ti, stack, resolved, resolving, all_skills_ordered,
                   seen, li, loaded_skills, missing_skills, skills_content, skills_metadata,
                   opened, ptext, pres>>

NoResult == [kind |-> "none", text |-> <<>>, obj |-> <<>>]

NoParse == [matched |-> FALSE, frontmatter |-> <<>>, content |-> <<>>]

NoDoc == [header |-> FALSE, lines |-> <<>>, body |-> <<>>]

Init ==
    /\ store \in Stores
    /\ config \in Configs
    /\ options \in [json : BOOLEAN]
    /\ pc = "start"
    /\ ti = 1
    /\ stack = <<>>
    /\ resolved = {}
    /\ resolving = {}
    /\ all_skills_ordered = <<>>
    /\ seen = {}
    /\ li = 1
    /\ loaded_skills = <<>>
    /\ missing_skills = <<>>
    /\ skills_content = <<>>
    /\ skills_metadata = <<>>
    /\ result = NoResult
    /\ opened = [n \in Names |-> 0]
    /\ ptext = NoDoc
    /\ pres = NoParse

Next ==
    \/ LoadConfig
    \/ CallTop
    \/ CallDep
    \/ ReturnDep
    \/ ReturnTop
    \/ StartLoad
    \/ LoadSkill
    \/ Finish

Spec == Init /\ [][Next]_vars

\* runs over the stores that hold a requirement cycle, every name configured
CycleInit ==
    /\ store \in {s \in Stores :
                    \E n \in Names :
                        /\ s[n].exists
                        /\ n \in Reachable([m \in Names |-> IF s[m].exists
                                                              THEN Requires(s[m].text)
                                                              ELSE <<>>] @@ <<>>,
                                            {k \in Range(Requires(s[n].text)) : k \in Names})}
    /\ config = [present |-> TRUE, skills |-> NameOrder]
    /\ options = [json |-> FALSE]
    /\ pc = "start"
    /\ ti = 1
    /\ stack = <<>>
    /\ resolved = {}
    /\ resolving = {}
    /\ all_skills_ordered = <<>>
    /\ seen = {}
    /\ li = 1
    /\ loaded_skills = <<>>
    /\ missing_skills = <<>>
    /\ skills_content = <<>>
    /\ skills_metadata = <<>>
    /\ result = NoResult
    /\ opened = [n \in Names |-> 0]
    /\ ptext = NoDoc
    /\ pres = NoParse

\* the run is one synchronous call: it keeps taking steps until it returns
FairSpec == CycleInit /\ [][Next]_vars /\ WF_vars(Next)

-----------------------------------------------------------------------------
(* parse_skill_frontmatter on its own: documents given by their parts.     *)

MaxMetaLines == 2   \* most metadata lines written in a header

\* lines that may stand between the two marker lines (none is the marker)
MetaLines ==
    { <<"k", ":", " ", "v">>,
      <<>>,
      KeyRequires \o <<":", " ", "[", "x", "]">>,
      <<"x", " ", "y">> }

\* body texts that may follow a header
Bodies ==
    { <<>>,
      <<"B", "\n">>,
      <<"-", "-", "-", "\n">>,
      <<"B", "\n", "-", "-", "-", "\n", "x", "\n">>,
      <<"\n", "-", "-", "-", "\n", "B">> }

\* texts that do not open with a header (marker line, metadata lines, marker
\* line, line break)
PlainTexts ==
    { <<>>,
      <<"B", "\n">>,
      <<"-", "-", "-">>,
      <<"-", "-", "-", "\n">>,
      <<"-", "-", "-", "\n", "B", "\n">>,
      <<"-", "-", "-", "\n", "k", ":", " ", "v", "\n", "-", "-", "-">>,
      <<"-", "-", "-", "-", "\n", "k", ":", " ", "v", "\n", "-", "-", "-", "\n", "B">>,
      <<" ", "-", "-", "-", "\n", "k", ":", " ", "v", "\n", "-", "-", "-", "\n", "B">>,
      <<"B", "\n", "-", "-", "-", "\n", "k", ":", " ", "v", "\n", "-", "-", "-", "\n">> }

ParseDocs ==
    [header : {TRUE}, lines : SeqsUpTo(MetaLines, MaxMetaLines), body : Bodies]
    \cup [header : {FALSE}, lines : {<<>>}, body : PlainTexts]

RECURSIVE Lines(_)
Lines(ls) == IF ls = <<>> THEN <<>> ELSE Head(ls) \o <<"\n">> \o Lines(Tail(ls))

\* the text of a document: marker line, metadata lines, marker line, body
DocText(d) ==
    IF d.header
    THEN <<"-", "-", "-", "\n">> \o Lines(d.lines) \o <<"-", "-", "-", "\n">> \o d.body
    ELSE d.body

ParseInit ==
    /\ ptext \in ParseDocs
    /\ pres = NoParse
    /\ pc = "parse"
    /\ store = [n \in Names |-> NoFile]
    /\ config = NoConfig
    /\ options = [json |-> FALSE]
    /\ ti = 1
    /\ stack = <<>>
    /\ resolved = {}
    /\ resolving = {}
    /\ all_skills_ordered = <<>>
    /\ seen = {}
    /\ li = 1
    /\ loaded_skills = <<>>
    /\ missing_skills = <<>>
    /\ skills_content = <<>>
    /\ skills_metadata = <<>>
    /\ result = NoResult
    /\ opened = [n \in Names |-> 0]

\* one call of parse_skill_frontmatter
ParseDoc ==
    /\ pc = "parse"
    /\ pres' = parse_skill_frontmatter(DocText(ptext))
    /\ pc' = "parsed"
    /\ UNCHANGED <<store, config, options, ti, stack, resolved, resolving,
                   all_skills_ordered, seen, li, loaded_skills, missing_skills,
                   skills_content, skills_metadata, result, opened, ptext>>

ParseNext == ParseDoc

ParseSpec == ParseInit /\ [][ParseNext]_vars

-----------------------------------------------------------------------------
(* The requirement relation of a store, and the specified resolution.      *)

\* the names that have a document
Skills == {n \in Names : Exists(n)}

\* the requires list of every name, read from its document (@@ makes the
\* function explicit, so that each document is parsed once)
RequiresOf == [n \in Names |-> IF Exists(n) THEN Requires(Read(n)) ELSE <<>>] @@ <<>>

\* the skills a skill requires directly
DirectReq(g, a) == Range(g[a]) \cap Skills

\* the skills a skill requires transitively
TransReq(g, a) == Reachable(g, DirectReq(g, a)) \cap Skills

\* the skill lies on a requirement cycle
OnCycle(g, a) == a \in TransReq(g, a)

\* the skills reachable from the configured names through documents
ReachableSkills == Reachable(RequiresOf, Range(config.skills)) \cap Skills

Pos(order, n) == CHOOSE k \in 1..Len(order) : order[k] = n

\* the run is over and the global order is final
Ordered == pc = "done"

\* resolve_skill_dependencies as a function of (name, resolved, resolving),
\* returning the emitted names and the resolved set it leaves behind
RECURSIVE ResolveRec(_, _, _)
RECURSIVE ResolveList(_, _, _)
ResolveRec(n, rsd, rsg) ==
    IF EnterKind(n, rsd, rsg) # "expand"
    THEN [deps |-> <<>>, resolved |-> rsd]
    ELSE LET sub == ResolveList(Requires(Read(n)), rsd, rsg \cup {n})
         IN  [deps |-> Append(sub.deps, n), resolved |-> sub.resolved \cup {n}]

ResolveList(reqs, rsd, rsg) ==
    IF reqs = <<>>
    THEN [deps |-> <<>>, resolved |-> rsd]
    ELSE LET h == ResolveRec(Head(reqs), rsd, rsg)
             t == ResolveList(Tail(reqs), h.resolved, rsg)
         IN  [deps |-> h.deps \o t.deps, resolved |-> t.resolved]

\* the specified assembler: one resolved/resolving pair threaded through all
\* top-level calls, each result merged skipping the names already present
RECURSIVE SharedFrom(_, _, _)
SharedFrom(k, order, rsd) ==
    IF k > Len(config.skills) THEN order
    ELSE LET r == ResolveRec(config.skills[k], rsd, {})
         IN  SharedFrom(k + 1,
                        order \o SelectSeq(r.deps, LAMBDA m : m \notin Range(order)),
                        r.resolved)

SharedOrder == SharedFrom(1, <<>>, {})

-----------------------------------------------------------------------------
(* Claims.                                                                 *)

\* C1 as stated: in the final order every skill stands strictly after every
\* skill it transitively requires, whatever the requirement relation.
C1_RequirementsFirst ==
    Ordered =>
        LET g == RequiresOf IN
        \A a \in Range(all_skills_ordered) : \A b \in TransReq(g, a) :
            /\ b \in Range(all_skills_ordered)
            /\ Pos(all_skills_ordered, b) < Pos(all_skills_ordered, a)

\* C1 amended: a skill that lies on no requirement cycle stands strictly
\* after every skill it transitively requires.
C1_RequirementsFirstAcyclic ==
    Ordered =>
        LET g == RequiresOf IN
        \A a \in Range(all_skills_ordered) : ~OnCycle(g, a) =>
            \A b \in TransReq(g, a) :
                /\ b \in Range(all_skills_ordered)
                /\ Pos(all_skills_ordered, b) < Pos(all_skills_ordered, a)

\* a finished run whose order holds a skill a on no cycle that requires b,
\* where b requires c and c requires b
C1_Witness ==
    /\ pc = "done"
    /\ LET g == RequiresOf IN
       \E a, b, c \in Range(all_skills_ordered) :
          /\ ~OnCycle(g, a)
          /\ b \in DirectReq(g, a)
          /\ c \in DirectReq(g, b)
          /\ b \in DirectReq(g, c)
          /\ c \notin DirectReq(g, a)

\* C2: a skill reached in the run is in the final order exactly once, and a
\* name once placed in the order keeps its position.
C2_OnceAtFirstPosition ==
    /\ [](/\ Injective(all_skills_ordered)
          /\ Ordered => \A n \in Skills : opened[n] >= 1 => n \in Range(all_skills_ordered))
    /\ [][\A k \in 1..Len(all_skills_ordered) :
             /\ k <= Len(all_skills_ordered')
             /\ all_skills_ordered'[k] = all_skills_ordered[k]]_vars

\* a finished run in which the resolver expanded some skill twice and a later
\* top-level expansion returned a name that was already in the order
C2_Witness ==
    /\ pc = "done"
    /\ \E n \in Range(all_skills_ordered) :
          /\ opened[n] = 2
          /\ Pos(all_skills_ordered, n) < Len(all_skills_ordered)

\* C3: every run over a store that holds a requirement cycle (the runs of
\* FairSpec) completes, and no name is ever in the order twice.
C3_CycleTerminates ==
    <>(pc = "done") /\ []Injective(all_skills_ordered)

\* a finished run whose order holds two skills that require each other and a
\* skill that requires itself
C3_Witness ==
    /\ pc = "done"
    /\ LET g == RequiresOf IN
       /\ \E a, b \in Range(all_skills_ordered) :
             a # b /\ b \in DirectReq(g, a) /\ a \in DirectReq(g, b)
       /\ \E c \in Range(all_skills_ordered) : c \in DirectReq(g, c)

\* C4 as stated: a configured name without a document ends in missing_skills
\* and adds nothing to the content.
C4_MissingReported ==
    (pc = "done" /\ config.present /\ config.skills # <<>>) =>
        \A n \in Range(config.skills) : ~Exists(n) =>
            /\ n \in Range(missing_skills)
            /\ n \notin Range(loaded_skills)

\* C5: the plain-text result is the bodies of the skills of the final order,
\* in that order, joined by blank line, rule, blank line; for [x, y] with x
\* bare and y requiring [x] it is x's body, the separator, y's body.
C5_PlainTextBundle ==
    (pc = "done" /\ ~options.json /\ config.present /\ config.skills # <<>>) =>
        /\ result = TextResult(Join([k \in 1..Len(all_skills_ordered) |->
                                        BodyOf(all_skills_ordered[k])],
                                    <<"\n", "\n", "-", "-", "-", "\n", "\n">>))
        /\ ( /\ config.skills = << <<"x">>, <<"y">> >>
             /\ store[<<"x">>] = [exists |-> TRUE, text |-> <<"B", "x", "\n">>]
             /\ store[<<"y">>] = [exists |-> TRUE,
                                  text |-> ListDoc(<< <<"x">> >>, <<"B", "y", "\n">>)] )
           => /\ all_skills_ordered = << <<"x">>, <<"y">> >>
              /\ result.text = <<"B", "x", "\n", "\n", "\n", "-", "-", "-", "\n", "\n",
                                 "B", "y", "\n">>

\* the end-to-end scenario, finished in plain-text mode
C5_Witness ==
    /\ pc = "done"
    /\ ~options.json
    /\ config.skills = << <<"x">>, <<"y">> >>
    /\ store[<<"x">>] = [exists |-> TRUE, text |-> <<"B", "x", "\n">>]
    /\ store[<<"y">>] = [exists |-> TRUE, text |-> ListDoc(<< <<"x">> >>, <<"B", "y", "\n">>)]
    /\ Len(skills_content) = 2

\* C6 as stated: a document made of marker line, metadata lines, marker line
\* and body parses to that body; a document without header parses to no
\* metadata and itself.
C6_BodyRoundTrip ==
    pc = "parsed" =>
        IF ptext.header
        THEN pres.matched /\ pres.content = ptext.body
        ELSE ~pres.matched /\ pres.content = DocText(ptext)

\* C7 as stated: in either mode an empty skill list returns something else
\* than a missing configuration does.
C7_EmptyDistinctFromAbsent ==
    (pc = "done" /\ config.present /\ config.skills = <<>>) =>
        result # AbsentResult(options.json)

\* C8: every skill reachable from a configured name through documents is in
\* the final order, whatever cycles and missing requirements were met.
C8_ReachableSkillsOrdered ==
    Ordered => ReachableSkills \subseteq Range(all_skills_ordered)

\* a finished run in which a skill requires itself and then a sibling, and
\* the sibling requires a name without document and then another name
C8_Witness ==
    /\ pc = "done"
    /\ LET g == RequiresOf IN
       \E a, b \in Range(all_skills_ordered) :
          /\ a # b
          /\ g[a] = <<a, b>>
          /\ Len(g[b]) = 2
          /\ ~Exists(g[b][1])

\* C9 as stated: within a run the resolver opens and expands only once a
\* skill that two different configured skills require.
C9_ResolvedOnce ==
    \A n \in Names : opened[n] >= 2 =>
        LET g == RequiresOf IN
        ~\E a, b \in Range(config.skills) :
            a # b /\ n \in DirectReq(g, a) /\ n \in DirectReq(g, b)

\* C10: the final order equals the order of the specified assembler, which
\* threads one resolved/resolving pair through all top-level calls.
C10_SameAsSharedSets ==
    (Ordered /\ config.present) => all_skills_ordered = SharedOrder

\* a finished run in which a later top-level call expanded again a skill an
\* earlier one had resolved, among skills that require each other
C10_Witness ==
    /\ pc = "done"
    /\ Len(config.skills) >= 2
    /\ LET g == RequiresOf IN
       /\ \E n \in Skills : opened[n] = 2 /\ n \in TransReq(g, n)
       /\ \E m \in Names : ~Exists(m) /\ m \in Reachable(g, Range(config.skills))

====
